---- MODULE Spec2Model ----
(***************************************************************************)
(* Research-Vault backend (src/app/src-tauri/src): the task service, the   *)
(* project service, the SQLite adapter (DbService) and the shared          *)
(* AppState, as a state machine.                                           *)
(*                                                                         *)
(* Option<T> is a sequence of length at most one: None = <<>>,             *)
(* Some(x) = <<x>>.  An AppResult is a record whose field kind is "Ok" or  *)
(* the name of the AppError variant.                                       *)
(***************************************************************************)
EXTENDS Integers, Sequences, FiniteSets, TLC

\* ------------------------------------------------------------------ bounds
MaxTasks == 2
MaxTime == 1

None == <<>>
Some(x) == <<x>>

TaskIdPool == <<"t1", "t2", "t3", "t4">>
TaskIds == {TaskIdPool[i] : i \in 1..MaxTasks}
ProjIds == {"p1", "p2"}
Procs == {"main", "worker"}

\* The strings callers send.
InTaskIds == {""} \cup TaskIds
InTitles == {"", "a"}
InStatuses == {"todo", "in_progress", "done", "bogus"}
InNames == {"", "n1"}
DiskPaths == {"/r1", "/r2"}
InPaths == {""} \cup DiskPaths

VARIABLES
    db,        \* AppState.db: None until init_db stores the connection
    lock,      \* holder of the AppState.db mutex, "free" or "poisoned"
    now,       \* chrono::Utc::now().timestamp()
    projects,  \* table projects: the set of its rows
    tasks,     \* table tasks: the set of its rows
    notes,     \* table notes: the set of its rows
    disk,      \* the directories that exist on disk
    meta,      \* path -> Option(title written to <path>/research.json)
    pc,        \* per caller: "idle" or the step of create_project it is at
    req,       \* per caller: the request it sent last
    ret,       \* per caller: the AppResult it got last (kind "pending" while running)
    tmp        \* per caller: create_project's local `now`

vars == <<db, lock, now, projects, tasks, notes, disk, meta, pc, req, ret, tmp>>
store == <<db, lock, projects, tasks, notes, disk, meta>>

\* ------------------------------------------------------------------ errors
\* Record constructors list their fields in the order TLC keeps them in, so a
\* record is built already normalised; the order of fields carries no meaning.
Ok(v) == [kind |-> "Ok", val |-> v]
InvalidInput(m) == [kind |-> "InvalidInput", msg |-> m]
NotFound(e, id) == [kind |-> "NotFound", id |-> id, entity |-> e]
Conflict(m) == [kind |-> "Conflict", msg |-> m]
FileSystem == [kind |-> "FileSystem"]
Git(m) == [kind |-> "Git", msg |-> m]
System(m) == [kind |-> "System", msg |-> m]
Database == [kind |-> "Database"]
Pending == [kind |-> "pending"]

\* ------------------------------------------------------------------ rows
unwrap_or(o, d) == IF o = None THEN d ELSE o[1]

Task(id, project_id, parent_id, title, description, status, priority, due_date, completed_at, created_at, updated_at, order, tags) ==
    [id |-> id, project_id |-> project_id, parent_id |-> parent_id,
     title |-> title, description |-> description, status |-> status,
     priority |-> priority, due_date |-> due_date,
     completed_at |-> completed_at, created_at |-> created_at,
     updated_at |-> updated_at, order |-> order, tags |-> tags]

Project(id, name, path, description, status, created_at, last_modified_at, tags) ==
    [id |-> id, description |-> description, status |-> status,
     created_at |-> created_at, tags |-> tags, name |-> name, path |-> path,
     last_modified_at |-> last_modified_at]

CreateTaskDto(project_id, parent_id, title, status, order) ==
    [project_id |-> project_id, parent_id |-> parent_id, title |-> title,
     description |-> None, status |-> status, priority |-> None,
     due_date |-> None, order |-> order, tags |-> None]

UpdateTaskDto(title, status, parent_id, order) ==
    [parent_id |-> parent_id, title |-> title, description |-> None,
     status |-> status, priority |-> None, due_date |-> None,
     order |-> order, tags |-> None]

CreateProjectDto(name, path) ==
    [description |-> None, tags |-> None, name |-> name, path |-> path]

Init ==
    /\ db = None
    /\ lock = "free"
    /\ now = 0
    /\ projects = {}
    /\ tasks = {}
    /\ notes = {}
    /\ disk = {}
    /\ meta = [d \in DiskPaths |-> None]
    /\ pc = [p \in Procs |-> "idle"]
    /\ req = [p \in Procs |-> [op |-> "none"]]
    /\ ret = [p \in Procs |-> [kind |-> "none"]]
    /\ tmp = [p \in Procs |-> 0]

\* The clock advances on its own.
Tick ==
    /\ now < MaxTime
    /\ now' = now + 1
    /\ UNCHANGED <<store, pc, req, ret, tmp>>

\* AppState::init_db: open the connection, run the migrations, store it.
\* self.db.lock().unwrap() waits for the guard and panics on a poisoned mutex,
\* leaving db as it is.
init_db ==
    /\ db = None
    /\ lock = "free"
    /\ db' = Some("conn")
    /\ UNCHANGED <<lock, now, projects, tasks, notes, disk, meta, pc, req, ret, tmp>>

\* A handler that answers `res` to request `r` in one step.
Respond(p, r, res) ==
    /\ req' = [req EXCEPT ![p] = r]
    /\ ret' = [ret EXCEPT ![p] = res]
    /\ UNCHANGED <<pc, tmp, now>>

Ids(rows) == {r.id : r \in rows}
Row(rows, id) == CHOOSE r \in rows : r.id = id

\* Uuid::new_v4(): an identifier no row carries.
NewTaskIds == (TaskIds \cup {TaskIdPool[MaxTasks + 1]}) \ Ids(tasks)
NewProjIds == (ProjIds \cup {"p3"}) \ Ids(projects)

\* ------------------------------------------------------------ TaskService
\* services/task_service.rs.  No handler takes the AppState: none reads or
\* writes the store.

create_task_result(data, id, t) ==
    IF data.title = "" THEN InvalidInput("Task title cannot be empty")
    ELSE IF data.project_id = "" THEN InvalidInput("Project ID cannot be empty")
    ELSE Ok(Task(id, data.project_id, data.parent_id, data.title,
                 data.description, unwrap_or(data.status, "todo"),
                 unwrap_or(data.priority, "medium"), data.due_date, None,
                 t, t, unwrap_or(data.order, 0), data.tags))

list_tasks_result(project_id) ==
    IF project_id = "" THEN InvalidInput("Project ID cannot be empty")
    ELSE Ok(<<>>)

list_root_tasks_result(project_id) ==
    IF project_id = "" THEN InvalidInput("Project ID cannot be empty")
    ELSE Ok(<<>>)

list_subtasks_result(parent_id) ==
    IF parent_id = "" THEN InvalidInput("Parent ID cannot be empty")
    ELSE Ok(<<>>)

get_task_result(id) ==
    IF id = "" THEN InvalidInput("Task ID cannot be empty")
    ELSE NotFound("Task", id)

get_task_hierarchy_result(id) ==
    IF id = "" THEN InvalidInput("Task ID cannot be empty")
    ELSE NotFound("Task", id)

update_task_result(id, data) ==
    IF id = "" THEN InvalidInput("Task ID cannot be empty")
    ELSE NotFound("Task", id)

delete_task_result(id) ==
    IF id = "" THEN InvalidInput("Task ID cannot be empty")
    ELSE NotFound("Task", id)

move_task_result(id, new_parent_id) ==
    IF id = "" THEN InvalidInput("Task ID cannot be empty")
    ELSE NotFound("Task", id)

reorder_task_result(id, new_order) ==
    IF id = "" THEN InvalidInput("Task ID cannot be empty")
    ELSE NotFound("Task", id)

ValidStatuses == {"todo", "in_progress", "done"}

list_tasks_by_status_result(project_id, status) ==
    IF project_id = "" THEN InvalidInput("Project ID cannot be empty")
    ELSE IF status \notin ValidStatuses
    THEN InvalidInput("Invalid status. Must be one of: todo, in_progress, done")
    ELSE Ok(<<>>)

search_tasks_result(project_id, query) ==
    IF project_id = "" THEN InvalidInput("Project ID cannot be empty")
    ELSE Ok(<<>>)

create_task(p, data) ==
    /\ pc[p] = "idle"
    /\ \E id \in NewTaskIds :
         Respond(p, [op |-> "create_task", data |-> data],
                 create_task_result(data, id, now))
    /\ UNCHANGED store

list_tasks(p, project_id) ==
    /\ pc[p] = "idle"
    /\ Respond(p, [project_id |-> project_id, op |-> "list_tasks"],
               list_tasks_result(project_id))
    /\ UNCHANGED store

list_root_tasks(p, project_id) ==
    /\ pc[p] = "idle"
    /\ Respond(p, [project_id |-> project_id, op |-> "list_root_tasks"],
               list_root_tasks_result(project_id))
    /\ UNCHANGED store

list_subtasks(p, parent_id) ==
    /\ pc[p] = "idle"
    /\ Respond(p, [parent_id |-> parent_id, op |-> "list_subtasks"],
               list_subtasks_result(parent_id))
    /\ UNCHANGED store

get_task(p, id) ==
    /\ pc[p] = "idle"
    /\ Respond(p, [id |-> id, op |-> "get_task"], get_task_result(id))
    /\ UNCHANGED store

get_task_hierarchy(p, id) ==
    /\ pc[p] = "idle"
    /\ Respond(p, [id |-> id, op |-> "get_task_hierarchy"],
               get_task_hierarchy_result(id))
    /\ UNCHANGED store

\* update_task as it would be if it wrote the supplied parent_id unchecked.
update_task_unchecked_parent(p, id, data) ==
    /\ pc[p] = "idle"
    /\ IF id \in Ids(tasks) /\ data.parent_id # None
       THEN /\ tasks' = {IF r.id = id THEN [r EXCEPT !.parent_id = data.parent_id]
                         ELSE r : r \in tasks}
            /\ Respond(p, [id |-> id, op |-> "update_task", data |-> data],
                       Ok([Row(tasks, id) EXCEPT !.parent_id = data.parent_id]))
       ELSE /\ tasks' = tasks
            /\ Respond(p, [id |-> id, op |-> "update_task", data |-> data],
                       update_task_result(id, data))
    /\ UNCHANGED <<db, lock, projects, notes, disk, meta>>

update_task(p, id, data) ==
    /\ pc[p] = "idle"
    /\ Respond(p, [id |-> id, op |-> "update_task", data |-> data],
               update_task_result(id, data))
    /\ UNCHANGED store

delete_task(p, id) ==
    /\ pc[p] = "idle"
    /\ Respond(p, [id |-> id, op |-> "delete_task"], delete_task_result(id))
    /\ UNCHANGED store

move_task(p, id, new_parent_id) ==
    /\ pc[p] = "idle"
    /\ Respond(p, [id |-> id, op |-> "move_task",
                   new_parent_id |-> new_parent_id],
               move_task_result(id, new_parent_id))
    /\ UNCHANGED store

reorder_task(p, id, new_order) ==
    /\ pc[p] = "idle"
    /\ Respond(p, [id |-> id, op |-> "reorder_task", new_order |-> new_order],
               reorder_task_result(id, new_order))
    /\ UNCHANGED store

list_tasks_by_status(p, project_id, status) ==
    /\ pc[p] = "idle"
    /\ Respond(p, [project_id |-> project_id, status |-> status,
                   op |-> "list_tasks_by_status"],
               list_tasks_by_status_result(project_id, status))
    /\ UNCHANGED store

search_tasks(p, project_id, query) ==
    /\ pc[p] = "idle"
    /\ Respond(p, [project_id |-> project_id, op |-> "search_tasks",
                   query |-> query],
               search_tasks_result(project_id, query))
    /\ UNCHANGED store

\* -------------------------------------------------------------- DbService
\* services/db_service.rs, called with the connection the mutex guards.  The
\* schema (state/app_state.rs run_migrations) makes id the primary key of
\* each table, projects.path UNIQUE and tasks.project_id a foreign key into
\* projects, enforced because init_db turns foreign_keys on.

\* serde_json::to_string of a Vec<String>, and serde_json::from_str(..).ok()
\* of a stored text: the text of an array is a value apart from the array.
to_string(v) == [json |-> v]
from_str(s) == IF DOMAIN s = {"json"} THEN Some(s.json) ELSE None

\* tags.as_ref().map(|t| serde_json::to_string(t).unwrap_or_default())
tags_json(tags) == IF tags = None THEN None ELSE Some(to_string(tags[1]))

\* The row INSERT INTO projects writes for a Project, and row_to_project.
project_row(project) == [project EXCEPT !.tags = tags_json(project.tags)]
row_to_project(row) ==
    [row EXCEPT !.tags = IF row.tags = None THEN None ELSE from_str(row.tags[1])]

\* The projects table as it would be without UNIQUE on path.
insert_project_ok_path_not_unique(rows, project) ==
    project.id \notin Ids(rows)

insert_project_ok(rows, project) ==
    /\ project.id \notin Ids(rows)
    /\ \A r \in rows : r.path # project.path

insert_task_ok(rows, prows, task) ==
    /\ task.id \notin Ids(rows)
    /\ task.project_id \in Ids(prows)

\* DbService::insert_project
insert_project(p, project) ==
    /\ pc[p] = "idle"
    /\ db # None
    /\ lock = "free"
    /\ IF insert_project_ok(projects, project)
       THEN /\ projects' = projects \cup {project_row(project)}
            /\ Respond(p, [op |-> "insert_project", project |-> project], Ok(<<>>))
       ELSE /\ projects' = projects
            /\ Respond(p, [op |-> "insert_project", project |-> project], Database)
    /\ UNCHANGED <<db, lock, tasks, notes, disk, meta>>

\* DbService::insert_task
insert_task(p, task) ==
    /\ pc[p] = "idle"
    /\ db # None
    /\ lock = "free"
    /\ IF insert_task_ok(tasks, projects, task)
       THEN /\ tasks' = tasks \cup {task}
            /\ Respond(p, [op |-> "insert_task", task |-> task], Ok(<<>>))
       ELSE /\ tasks' = tasks
            /\ Respond(p, [op |-> "insert_task", task |-> task], Database)
    /\ UNCHANGED <<db, lock, projects, notes, disk, meta>>

\* DbService::delete_task: DELETE FROM tasks WHERE id = ?1
db_delete_task(p, id) ==
    /\ pc[p] = "idle"
    /\ db # None
    /\ lock = "free"
    /\ tasks' = {r \in tasks : r.id # id}
    /\ Respond(p, [id |-> id, op |-> "db_delete_task"], Ok(<<>>))
    /\ UNCHANGED <<db, lock, projects, notes, disk, meta>>

\* DbService::get_project_by_id
get_project_by_id(rows, id) ==
    IF id \in Ids(rows) THEN Some(row_to_project(Row(rows, id))) ELSE None

\* update_project as it would be if it wrote a row for an id that has none.
db_update_project_upsert(rows, id, name, description, status, tags, t) ==
    IF id \in Ids(rows)
    THEN {IF r.id # id THEN r
          ELSE [r EXCEPT !.last_modified_at = t,
                         !.name = IF name = None THEN @ ELSE unwrap_or(name, ""),
                         !.description = IF description = None THEN @ ELSE description,
                         !.status = IF status = None THEN @ ELSE unwrap_or(status, ""),
                         !.tags = IF tags = None THEN @ ELSE tags_json(tags)] : r \in rows}
    ELSE rows \cup {[id |-> id, description |-> description,
                     status |-> unwrap_or(status, "active"), created_at |-> t,
                     tags |-> tags_json(tags), name |-> unwrap_or(name, ""),
                     path |-> id, last_modified_at |-> t]}

\* update_project as it would be if an empty string cleared the column and a
\* DTO without fields left the row alone.
db_update_project_empty_clears(rows, id, name, description, status, tags, t) ==
    {IF r.id # id \/ <<name, description, status, tags>> = <<None, None, None, None>> THEN r
     ELSE [r EXCEPT !.last_modified_at = t,
                    !.name = IF name = None THEN @ ELSE unwrap_or(name, ""),
                    !.description = IF description = None THEN @
                                    ELSE IF description = Some("") THEN None
                                    ELSE description,
                    !.status = IF status = None THEN @ ELSE unwrap_or(status, ""),
                    !.tags = IF tags = None THEN @ ELSE tags_json(tags)] : r \in rows}

\* DbService::update_project: UPDATE projects SET last_modified_at = now and
\* each column whose argument is Some, WHERE id = id.  Statement parameter
\* ?6 is always present, so the six bound values always fit.
db_update_project(rows, id, name, description, status, tags, t) ==
    {IF r.id # id THEN r
     ELSE [r EXCEPT !.last_modified_at = t,
                    !.name = IF name = None THEN @ ELSE unwrap_or(name, ""),
                    !.description = IF description = None THEN @
                                    ELSE Some(unwrap_or(description, "")),
                    !.status = IF status = None THEN @ ELSE unwrap_or(status, ""),
                    !.tags = IF tags = None THEN @ ELSE tags_json(tags)] : r \in rows}

\* delete_project as it would be if it removed the row.
db_delete_project_hard(rows, id, t) == {r \in rows : r.id # id}

\* DbService::delete_project:
\* UPDATE projects SET status = 'archived', last_modified_at = now WHERE id = id
db_delete_project(rows, id, t) ==
    {IF r.id # id THEN r
     ELSE [r EXCEPT !.status = "archived", !.last_modified_at = t] : r \in rows}

\* models/note.rs Note
Note(id, project_id, title, content, created_at, updated_at, tags, is_pinned) ==
    [id |-> id, project_id |-> project_id, title |-> title,
     created_at |-> created_at, updated_at |-> updated_at, tags |-> tags,
     content |-> content, is_pinned |-> is_pinned]

insert_note_ok(rows, prows, note) ==
    /\ note.id \notin Ids(rows)
    /\ note.project_id \in Ids(prows)

\* DbService::insert_note
insert_note(p, note) ==
    /\ pc[p] = "idle"
    /\ db # None
    /\ lock = "free"
    /\ IF insert_note_ok(notes, projects, note)
       THEN /\ notes' = notes \cup {[note EXCEPT !.tags = tags_json(note.tags)]}
            /\ Respond(p, [op |-> "insert_note", note |-> note], Ok(<<>>))
       ELSE /\ notes' = notes
            /\ Respond(p, [op |-> "insert_note", note |-> note], Database)
    /\ UNCHANGED <<db, lock, projects, tasks, disk, meta>>

\* --------------------------------------------------------- ProjectService
\* services/project_service.rs, create_project, one action per step that
\* touches the disk, the lock or the store.

Finish(p, res) ==
    /\ pc' = [pc EXCEPT ![p] = "idle"]
    /\ ret' = [ret EXCEPT ![p] = res]

Goto(p, step) ==
    /\ pc' = [pc EXCEPT ![p] = step]
    /\ ret' = [ret EXCEPT ![p] = Pending]

\* create_project as it would be without the check of the path.
create_project_no_path_check(p, data) ==
    /\ pc[p] = "idle"
    /\ req' = [req EXCEPT ![p] = [op |-> "create_project", data |-> data]]
    /\ IF data.name = ""
       THEN Finish(p, InvalidInput("Project name cannot be empty"))
       ELSE Goto(p, "cp_stat")
    /\ UNCHANGED <<store, now, tmp>>

\* lines 13-21: the call and its validation
create_project(p, data) ==
    /\ pc[p] = "idle"
    /\ req' = [req EXCEPT ![p] = [op |-> "create_project", data |-> data]]
    /\ IF data.name = ""
       THEN Finish(p, InvalidInput("Project name cannot be empty"))
       ELSE IF data.path = ""
       THEN Finish(p, InvalidInput("Project path cannot be empty"))
       ELSE Goto(p, "cp_stat")
    /\ UNCHANGED <<store, now, tmp>>

\* lines 23-26: fs::metadata(&data.path).is_ok()
cp_stat(p) ==
    /\ pc[p] = "cp_stat"
    /\ IF req[p].data.path \in disk
       THEN Finish(p, Conflict("Project path already exists"))
       ELSE Goto(p, "cp_mkdir")
    /\ UNCHANGED <<store, now, req, tmp>>

\* lines 28-35: create_dir_all of the directory, then of docs, data, notes;
\* each may fail, the later ones with the directory already made
cp_mkdir(p) ==
    /\ pc[p] = "cp_mkdir"
    /\ \/ /\ disk' = disk \cup {req[p].data.path}
          /\ Goto(p, "cp_git")
       \/ /\ disk' = disk
          /\ Finish(p, FileSystem)
       \/ /\ disk' = disk \cup {req[p].data.path}
          /\ Finish(p, FileSystem)
    /\ UNCHANGED <<db, lock, projects, tasks, notes, meta, now, req, tmp>>

\* lines 37-38 and git_service.rs: `git init` in the directory
cp_git(p) ==
    /\ pc[p] = "cp_git"
    /\ \/ Goto(p, "cp_write")
       \/ Finish(p, Git("Failed to execute git init"))
       \/ Finish(p, Git("Git init failed"))
    /\ UNCHANGED <<store, now, req, tmp>>

\* cp_write as it would be if the row were saved before the metadata file is
\* written.
cp_write_row_first(p) ==
    /\ pc[p] = "cp_write"
    /\ \E id \in NewProjIds :
         projects' = IF db = None THEN projects
                     ELSE projects \cup {[id |-> id,
                                          description |-> req[p].data.description,
                                          status |-> "active", created_at |-> now,
                                          tags |-> req[p].data.tags,
                                          name |-> req[p].data.name,
                                          path |-> req[p].data.path,
                                          last_modified_at |-> now]}
    /\ \/ /\ meta' = [meta EXCEPT ![req[p].data.path] = Some(req[p].data.name)]
          /\ tmp' = [tmp EXCEPT ![p] = now]
          /\ Goto(p, "cp_lock")
       \/ /\ meta' = meta
          /\ tmp' = tmp
          /\ Finish(p, FileSystem)
    /\ UNCHANGED <<db, lock, tasks, notes, disk, now, req>>

\* lines 40-56: `now` is read, research.json is written with the name as title
cp_write(p) ==
    /\ pc[p] = "cp_write"
    /\ \/ /\ meta' = [meta EXCEPT ![req[p].data.path] = Some(req[p].data.name)]
          /\ tmp' = [tmp EXCEPT ![p] = now]
          /\ Goto(p, "cp_lock")
       \/ /\ meta' = meta
          /\ tmp' = tmp
          /\ Finish(p, FileSystem)
    /\ UNCHANGED <<db, lock, projects, tasks, notes, disk, now, req>>

\* line 71: state.db.lock(), which waits while another caller holds the
\* guard and fails at once on a poisoned mutex
cp_lock(p) ==
    /\ pc[p] = "cp_lock"
    /\ \/ /\ lock = "free"
          /\ lock' = p
          /\ Goto(p, "cp_insert")
       \/ /\ lock = "poisoned"
          /\ lock' = lock
          /\ Finish(p, System("Failed to lock database"))
    /\ UNCHANGED <<db, projects, tasks, notes, disk, meta, now, req, tmp>>

\* lines 58-68: the project model create_project builds
new_project(id, data, t) ==
    Project(id, data.name, data.path, data.description, "active", t, t, data.tags)

\* cp_insert as it would be if the guard were kept when the insert fails.
cp_insert_keeps_guard(p) ==
    /\ pc[p] = "cp_insert"
    /\ lock = p
    /\ tmp' = [tmp EXCEPT ![p] = 0]
    /\ IF db = None
       THEN /\ projects' = projects
            /\ lock' = "free"
            /\ Finish(p, System("Database not initialized"))
       ELSE \E id \in NewProjIds :
              LET project == new_project(id, req[p].data, tmp[p]) IN
              IF insert_project_ok(projects, project)
              THEN /\ projects' = projects \cup {project_row(project)}
                   /\ lock' = "free"
                   /\ Finish(p, Ok(project))
              ELSE /\ projects' = projects
                   /\ lock' = lock
                   /\ Finish(p, Database)
    /\ UNCHANGED <<db, tasks, notes, disk, meta, now, req>>

\* lines 72-78: insert under the lock, which the guard's drop releases
cp_insert(p) ==
    /\ pc[p] = "cp_insert"
    /\ lock = p
    /\ lock' = "free"
    /\ tmp' = [tmp EXCEPT ![p] = 0]
    /\ IF db = None
       THEN /\ projects' = projects
            /\ Finish(p, System("Database not initialized"))
       ELSE \E id \in NewProjIds :
              LET project == new_project(id, req[p].data, tmp[p]) IN
              IF insert_project_ok(projects, project)
              THEN /\ projects' = projects \cup {project_row(project)}
                   /\ Finish(p, Ok(project))
              ELSE /\ projects' = projects
                   /\ Finish(p, Database)
    /\ UNCHANGED <<db, tasks, notes, disk, meta, now, req>>

\* list_projects, get_project, update_project and delete_project begin with
\* state.db.lock(): the call waits while another caller holds the guard,
\* fails at once on a poisoned mutex, and otherwise runs its body holding it.
lock_db(p, r, step) ==
    /\ pc[p] = "idle"
    /\ req' = [req EXCEPT ![p] = r]
    /\ \/ /\ lock = "free"
          /\ lock' = p
          /\ Goto(p, step)
       \/ /\ lock = "poisoned"
          /\ lock' = lock
          /\ Finish(p, System("Failed to lock database"))
    /\ UNCHANGED <<db, projects, tasks, notes, disk, meta, now, tmp>>

\* DbService::get_all_projects: ORDER BY last_modified_at DESC
get_all_projects(rows) ==
    {l \in [1..Cardinality(rows) -> {row_to_project(r) : r \in rows}] :
        /\ \A i, j \in DOMAIN l : i < j => l[i].last_modified_at >= l[j].last_modified_at
        /\ \A i, j \in DOMAIN l : l[i] = l[j] => i = j}

\* lines 82-89
list_projects(p) == lock_db(p, [op |-> "list_projects"], "lp_exec")

lp_exec(p) ==
    /\ pc[p] = "lp_exec"
    /\ lock = p
    /\ lock' = "free"
    /\ IF db = None
       THEN Finish(p, System("Database not initialized"))
       ELSE \E l \in get_all_projects(projects) : Finish(p, Ok(l))
    /\ UNCHANGED <<db, projects, tasks, notes, disk, meta, now, req, tmp>>

\* lines 92-100
get_project(p, id) == lock_db(p, [id |-> id, op |-> "get_project"], "gp_exec")

gp_exec(p) ==
    /\ pc[p] = "gp_exec"
    /\ lock = p
    /\ lock' = "free"
    /\ IF db = None
       THEN Finish(p, System("Database not initialized"))
       ELSE LET project == get_project_by_id(projects, req[p].id) IN
            IF project = None THEN Finish(p, NotFound("Project", req[p].id))
            ELSE Finish(p, Ok(project[1]))
    /\ UNCHANGED <<db, projects, tasks, notes, disk, meta, now, req, tmp>>

\* lines 103-121
update_project(p, id, data) ==
    lock_db(p, [id |-> id, op |-> "update_project", data |-> data], "up_exec")

up_exec(p) ==
    /\ pc[p] = "up_exec"
    /\ lock = p
    /\ lock' = "free"
    /\ IF db = None
       THEN /\ projects' = projects
            /\ Finish(p, System("Database not initialized"))
       ELSE LET id == req[p].id
                data == req[p].data
                rows == db_update_project(projects, id, data.name, data.description,
                                          data.status, data.tags, now)
                project == get_project_by_id(rows, id) IN
            /\ projects' = rows
            /\ IF project = None THEN Finish(p, NotFound("Project", id))
               ELSE Finish(p, Ok(project[1]))
    /\ UNCHANGED <<db, tasks, notes, disk, meta, now, req, tmp>>

\* lines 124-131
delete_project(p, id) == lock_db(p, [id |-> id, op |-> "delete_project"], "dp_exec")

\* delete_project as it would be if it looked the row up first.
dp_exec_checks_row(p) ==
    /\ pc[p] = "dp_exec"
    /\ lock = p
    /\ lock' = "free"
    /\ IF db = None
       THEN /\ projects' = projects
            /\ Finish(p, System("Database not initialized"))
       ELSE IF get_project_by_id(projects, req[p].id) = None
       THEN /\ projects' = projects
            /\ Finish(p, NotFound("Project", req[p].id))
       ELSE /\ projects' = db_delete_project(projects, req[p].id, now)
            /\ Finish(p, Ok(<<>>))
    /\ UNCHANGED <<db, tasks, notes, disk, meta, now, req, tmp>>

dp_exec(p) ==
    /\ pc[p] = "dp_exec"
    /\ lock = p
    /\ lock' = "free"
    /\ IF db = None
       THEN /\ projects' = projects
            /\ Finish(p, System("Database not initialized"))
       ELSE /\ projects' = db_delete_project(projects, req[p].id, now)
            /\ Finish(p, Ok(<<>>))
    /\ UNCHANGED <<db, tasks, notes, disk, meta, now, req, tmp>>

\* std::sync::Mutex: a thread that unwinds while it holds the guard, which
\* AppState::get_db hands to any caller, leaves the mutex poisoned.
get_db_panics ==
    /\ lock = "free"
    /\ lock' = "poisoned"
    /\ UNCHANGED <<db, now, projects, tasks, notes, disk, meta, pc, req, ret, tmp>>

UpdateProjectDto(name, description, status, tags) ==
    [description |-> description, status |-> status, tags |-> tags, name |-> name]

\* ------------------------------------------------------------------ inputs
InParents == {None} \cup {Some(t) : t \in TaskIds}

\* What the request layer is sent: every way to fail validation, and to pass.
InCreateTaskDtos ==
    {CreateTaskDto(pr, pa, ti, None, None) :
        pr \in {"", "p1"}, pa \in {None, Some("t1")}, ti \in InTitles}
    \cup {CreateTaskDto("p1", None, "a", Some("done"), None),
          CreateTaskDto("p1", None, "a", Some("bogus"), Some(-1))}

InCreateProjectDtos == {CreateProjectDto(n, pa) : n \in InNames, pa \in InPaths}

\* The rows a caller of DbService inserts.
InProjectRows(t) ==
    {Project(id, "n1", pa, None, "active", t, t, None) :
        id \in ProjIds, pa \in DiskPaths}

InTaskRows(t) ==
    {Task(id, "p1", pa, "a", None, "todo", "medium", None, None, t, t, 0, None) :
        id \in TaskIds, pa \in InParents}
    \cup {Task(id, "p2", None, "a", None, "todo", "medium", None, None, t, t, 0, None) :
            id \in TaskIds}

\* What the task handlers are sent over a store that holds rows.
InTaskDtos ==
    {CreateTaskDto("p1", pa, "a", None, None) : pa \in InParents}

InUpdateTaskDtos ==
    {UpdateTaskDto(None, st, None, None) : st \in {None, Some("todo"), Some("done")}}
    \cup {UpdateTaskDto(None, None, pa, None) : pa \in InParents \ {None}}

\* ---------------------------------------------------------- specifications
\* The request layer: project creation, and the task handlers that only
\* validate and answer.
Next ==
    \/ Tick
    \/ init_db
    \/ \E data \in InCreateProjectDtos : create_project("main", data)
    \/ cp_stat("main")
    \/ cp_mkdir("main")
    \/ cp_git("main")
    \/ cp_write("main")
    \/ cp_lock("main")
    \/ cp_insert("main")
    \/ \E project \in InProjectRows(now) : insert_project("main", project)
    \/ \E data \in InCreateTaskDtos : create_task("main", data)
    \/ \E pr \in {"", "p1"}, st \in InStatuses : list_tasks_by_status("main", pr, st)
    \/ \E pr \in {"", "p1"} : list_tasks("main", pr)
    \/ \E pr \in {"", "p1"} : list_root_tasks("main", pr)
    \/ \E id \in {"", "t1"} : list_subtasks("main", id)
    \/ \E pr \in {"", "p1"} : search_tasks("main", pr, "q")
    \/ \E id \in {"", "t1"} : reorder_task("main", id, 1)

Spec == Init /\ [][Next]_vars

\* The task handlers that are to read or write task rows, over a store that
\* holds rows.
TaskServiceStep(p) ==
    \/ \E data \in InTaskDtos : create_task(p, data)
    \/ \E id \in TaskIds, data \in InUpdateTaskDtos : update_task(p, id, data)
    \/ \E id \in TaskIds, np \in InParents : move_task(p, id, np)
    \/ \E id \in TaskIds : delete_task(p, id)

TaskNext ==
    \/ init_db
    \/ insert_project("main", Project("p1", "n1", "/r1", None, "active", now, now, None))
    \/ insert_project("main", Project("p2", "n2", "/r2", None, "active", now, now, None))
    \/ \E task \in InTaskRows(now) : insert_task("main", task)
    \/ \E id \in TaskIds : db_delete_task("main", id)
    \/ TaskServiceStep("main")
    \/ \E id \in InTaskIds : get_task("main", id)
    \/ \E id \in TaskIds : get_task_hierarchy("main", id)

SpecTask == Init /\ [][TaskNext]_vars

\* What the project handlers are sent: the empty DTO, and one field at a time,
\* an empty string and a status outside the domain among them.
InUpdateProjectDtos ==
    {UpdateProjectDto(None, None, None, None),
     UpdateProjectDto(Some(""), None, None, None),
     UpdateProjectDto(None, Some(""), None, None),
     UpdateProjectDto(None, None, Some("archived"), None),
     UpdateProjectDto(None, None, Some("bogus"), None),
     UpdateProjectDto(None, None, None, Some(<<"x">>))}

\* The project handlers of one caller, over a store that holds a project
\* made by create_project or inserted through the adapter, with a task and a
\* note of its own.
ProjectNext ==
    \/ Tick
    \/ init_db
    \/ create_project("main", CreateProjectDto("n1", "/r2"))
    \/ cp_stat("main")
    \/ cp_mkdir("main")
    \/ cp_git("main")
    \/ cp_write("main")
    \/ cp_lock("main")
    \/ cp_insert("main")
    \/ insert_project("main", Project("p1", "n1", "/r1", None, "active", now, now, None))
    \/ insert_task("main", Task("t1", "p1", None, "a", None, "todo", "medium", None, None, now, now, 0, None))
    \/ insert_note("main", Note("o1", "p1", "a", "c", now, now, None, FALSE))
    \/ list_projects("main")
    \/ lp_exec("main")
    \/ get_project("main", "p1")
    \/ gp_exec("main")
    \/ \E data \in InUpdateProjectDtos : update_project("main", "p1", data)
    \/ up_exec("main")
    \/ delete_project("main", "p1")
    \/ dp_exec("main")

SpecProject == Init /\ [][ProjectNext]_vars

\* Two callers at once on one AppState, both after the path /r1; the mutex
\* may be left poisoned.
ConcStep(p) ==
    \/ create_project(p, CreateProjectDto(IF p = "main" THEN "n1" ELSE "n2", "/r1"))
    \/ p = "worker" /\ create_project(p, CreateProjectDto("n2", "/r2"))
    \/ cp_stat(p)
    \/ cp_mkdir(p)
    \/ cp_git(p)
    \/ cp_write(p)
    \/ cp_lock(p)
    \/ cp_insert(p)
    \/ list_projects(p)
    \/ lp_exec(p)
    \/ get_project(p, "p1")
    \/ gp_exec(p)
    \/ update_project(p, "p1", UpdateProjectDto(None, None, Some("archived"), None))
    \/ up_exec(p)
    \/ delete_project(p, "p1")
    \/ dp_exec(p)

ConcNext ==
    \/ init_db
    \/ get_db_panics
    \/ \E p \in Procs : ConcStep(p)

SpecConc == Init /\ [][ConcNext]_vars

\* ------------------------------------------------------------ the hierarchy
\* The tasks met by following parent_id from task `id`, at most n links.
RECURSIVE AncestorsN(_, _, _)
AncestorsN(rows, id, n) ==
    IF n = 0 \/ id \notin Ids(rows) THEN {}
    ELSE LET pa == Row(rows, id).parent_id IN
         IF pa = None THEN {} ELSE {pa[1]} \cup AncestorsN(rows, pa[1], n - 1)

Ancestors(rows, id) == AncestorsN(rows, id, Cardinality(rows) + 1)

\* The tasks whose transitive parent chain reaches `id`.
Descendants(rows, id) == {r.id : r \in {x \in rows : id \in Ancestors(rows, x.id)}}

\* Following parent_id from `id` ends at a root within n links.
RECURSIVE ReachesRoot(_, _, _)
ReachesRoot(rows, id, n) ==
    /\ n > 0
    /\ id \in Ids(rows)
    /\ LET pa == Row(rows, id).parent_id IN
       pa = None \/ ReachesRoot(rows, pa[1], n - 1)

Forest(rows) ==
    \A r \in rows :
        /\ r.id \notin Ancestors(rows, r.id)
        /\ ReachesRoot(rows, r.id, Cardinality(rows))

\* Caller p sends request `op` in this step.
Called(p, op) ==
    /\ pc[p] = "idle"
    /\ req'[p].op = op
    /\ <<req'[p], ret'[p], pc'[p]>> # <<req[p], ret[p], pc[p]>>

\* ------------------------------------------------------------------ claims

\* C1: deleteTask(id) on an existing task with N descendants removes exactly
\* those N+1 rows and no others; afterwards getTask fails NotFound for each of
\* the N+1 ids and every other task still resolves.
C1_DeleteRemovesSubtree ==
    [][(Called("main", "delete_task") /\ req'["main"].id \in Ids(tasks)) =>
        LET id == req'["main"].id
            gone == {id} \cup Descendants(tasks, id) IN
        /\ ret'["main"].kind = "Ok"
        /\ tasks' = {r \in tasks : r.id \notin gone}
        /\ \A x \in gone : get_task_result(x).kind = "NotFound"
        /\ \A r \in tasks' : get_task_result(r.id) = Ok(r)]_vars

\* C2: no sequence of createTask, updateTask, moveTask and deleteTask makes a
\* task its own ancestor.  The store starts empty, and each of the four
\* handlers, run on a store where every parent chain ends at a root without
\* revisiting a task, leaves such a store.
C2_HandlersKeepForest ==
    [][((\E op \in {"create_task", "update_task", "move_task", "delete_task"} :
            Called("main", op)) /\ Forest(tasks)) => Forest(tasks')]_vars

\* An updateTask that supplies parent_id has run on a forest of two tasks,
\* one the parent of the other.
C2_Witness ==
    /\ req["main"].op = "update_task"
    /\ req["main"].data.parent_id # None
    /\ req["main"].id \in Ids(tasks)
    /\ Cardinality(tasks) >= 2
    /\ \E r \in tasks : r.parent_id # None
    /\ Forest(tasks)

\* C3: moveTask(A, B) for existing A and B fails with Conflict and changes no
\* parent_id when B is A or a descendant of A; otherwise (same project) it
\* succeeds and A.parent_id = B; moveTask(A, null) succeeds and makes A a root.
C3_MoveTask ==
    [][(Called("main", "move_task") /\ req'["main"].id \in Ids(tasks)) =>
        LET id == req'["main"].id
            np == req'["main"].new_parent_id IN
        IF np = None
        THEN /\ ret'["main"].kind = "Ok"
             /\ Row(tasks', id).parent_id = None
        ELSE np[1] \in Ids(tasks) =>
             IF np[1] = id \/ np[1] \in Descendants(tasks, id)
             THEN /\ ret'["main"].kind = "Conflict"
                  /\ \A r \in tasks : Row(tasks', r.id).parent_id = r.parent_id
             ELSE Row(tasks, np[1]).project_id = Row(tasks, id).project_id =>
                  /\ ret'["main"].kind = "Ok"
                  /\ Row(tasks', id).parent_id = np]_vars

\* Every task with a parent references an existing task of the same project.
ParentsValid(rows) ==
    \A r \in rows :
        r.parent_id # None =>
            /\ r.parent_id[1] \in Ids(rows)
            /\ Row(rows, r.parent_id[1]).project_id = r.project_id

\* C4: createTask with a parent_id that resolves to no task, or to a task of
\* another project, fails with NotFound or InvalidInput and creates no task;
\* so the handlers keep every parent_id referencing a task of the same project.
C4_CreateChecksParent ==
    [][Called("main", "create_task") =>
        LET data == req'["main"].data IN
        /\ (/\ data.parent_id # None
            /\ \/ data.parent_id[1] \notin Ids(tasks)
               \/ Row(tasks, data.parent_id[1]).project_id # data.project_id)
           => /\ ret'["main"].kind \in {"NotFound", "InvalidInput"}
              /\ tasks' = tasks
        /\ ParentsValid(tasks) => ParentsValid(tasks')]_vars

\* C5: createTask persists the task it returns: after it succeeds with T,
\* getTask(T.id) returns T and listTasks(T.project_id) contains T.
C5_CreatePersists ==
    [][(Called("main", "create_task") /\ ret'["main"].kind = "Ok") =>
        LET T == ret'["main"].val IN
        /\ T \in tasks'
        /\ get_task_result(T.id) = Ok(T)
        /\ LET l == list_tasks_result(T.project_id) IN
           l.kind = "Ok" /\ \E i \in DOMAIN l.val : l.val[i] = T]_vars

\* models/task.rs TaskWithChildren: a task and its children, each expanded.
TaskWithChildren(task, children) == [task |-> task, children |-> children]

\* The ids in a projection, and in a list of projections, in preorder.
RECURSIVE TreeIds(_), ChildIds(_)
TreeIds(tw) == <<tw.task.id>> \o ChildIds(tw.children)
ChildIds(cs) == IF cs = <<>> THEN <<>> ELSE TreeIds(Head(cs)) \o ChildIds(Tail(cs))

RECURSIVE SiblingsSorted(_)
SiblingsSorted(tw) ==
    /\ \A i, j \in DOMAIN tw.children :
         i < j => tw.children[i].task.order <= tw.children[j].task.order
    /\ \A i \in DOMAIN tw.children : SiblingsSorted(tw.children[i])

\* C6: for every existing task T, getTaskHierarchy(T.id) succeeds and the
\* tasks below the root of the projection are exactly the tasks whose parent
\* chain reaches T, each once, every node's children in ascending order.
C6_HierarchyIsSubtree ==
    [][(Called("main", "get_task_hierarchy") /\ req'["main"].id \in Ids(tasks)) =>
        /\ ret'["main"].kind = "Ok"
        /\ LET tw == ret'["main"].val
               below == ChildIds(tw.children) IN
           /\ tw.task = Row(tasks, req'["main"].id)
           /\ {below[i] : i \in DOMAIN below} = Descendants(tasks, tw.task.id)
           /\ \A i, j \in DOMAIN below : below[i] = below[j] => i = j
           /\ SiblingsSorted(tw)]_vars

\* C7: updateTask(id, {status: done}) on an existing task that is not done
\* sets completed_at to a value at or after the previous updated_at; an
\* updateTask to todo or in_progress on a done task clears completed_at.
C7_CompletedAtFollowsStatus ==
    [][(Called("main", "update_task") /\ req'["main"].id \in Ids(tasks)) =>
        LET id == req'["main"].id
            data == req'["main"].data
            old == Row(tasks, id) IN
        /\ (data.status = Some("done") /\ old.status # "done") =>
              /\ ret'["main"].kind = "Ok"
              /\ Row(tasks', id).completed_at # None
              /\ Row(tasks', id).completed_at[1] >= old.updated_at
        /\ (data.status \in {Some("todo"), Some("in_progress")} /\ old.status = "done") =>
              /\ ret'["main"].kind = "Ok"
              /\ Row(tasks', id).completed_at = None]_vars

\* C8: updateTask(id, dto) on an existing task succeeds and leaves unchanged
\* every field dto does not supply (but updated_at, and completed_at when the
\* status changes); id, project_id and created_at never change.
C8_UpdateKeepsUnsetFields ==
    [][(Called("main", "update_task") /\ req'["main"].id \in Ids(tasks)) =>
        LET id == req'["main"].id
            data == req'["main"].data
            old == Row(tasks, id) IN
        /\ ret'["main"].kind = "Ok"
        /\ id \in Ids(tasks')
        /\ LET new == Row(tasks', id) IN
           /\ new.project_id = old.project_id
           /\ new.created_at = old.created_at
           /\ \A f \in {"title", "description", "status", "priority",
                        "due_date", "parent_id", "order", "tags"} :
                data[f] = None => new[f] = old[f]
           /\ data.status = None => new.completed_at = old.completed_at]_vars

\* The call is answered InvalidInput at once: no step that reads the disk or
\* takes the lock runs, and the store and the disk are as before.
Rejected(p) ==
    /\ ret'[p].kind = "InvalidInput"
    /\ pc'[p] = "idle"
    /\ UNCHANGED store

\* C9: validation comes first.  createTask with an empty title or project_id,
\* createProject with an empty name or path, and listTasksByStatus with a
\* status outside {todo, in_progress, done} return InvalidInput without store
\* or filesystem access or state change; listTasksByStatus with one of the
\* three statuses and a non-empty project_id does not return InvalidInput.
C9_ValidationFirst ==
    [][/\ (/\ Called("main", "create_task")
           /\ \/ req'["main"].data.title = ""
              \/ req'["main"].data.project_id = "") => Rejected("main")
       /\ (/\ Called("main", "create_project")
           /\ \/ req'["main"].data.name = ""
              \/ req'["main"].data.path = "") => Rejected("main")
       /\ Called("main", "list_tasks_by_status") =>
            /\ req'["main"].status \notin {"todo", "in_progress", "done"}
                 => Rejected("main")
            /\ (/\ req'["main"].status \in {"todo", "in_progress", "done"}
                /\ req'["main"].project_id # "")
                 => ret'["main"].kind # "InvalidInput"]_vars

\* createProject with a name and an empty path was answered InvalidInput
\* while the database is open and holds a project row.
C9_Witness ==
    /\ req["main"].op = "create_project"
    /\ req["main"].data.name # ""
    /\ req["main"].data.path = ""
    /\ ret["main"].kind = "InvalidInput"
    /\ pc["main"] = "idle"
    /\ db # None
    /\ projects # {}

\* C10: createProject(dto) fails with Conflict, and persists no row, whenever
\* dto.path exists on disk or occupies a project row, also when the row's
\* directory is not on disk.  Stated where the code decides it: at the check
\* of the disk, and at the insert that follows a successful provisioning.
C10_DuplicatePathConflict ==
    [][/\ (/\ pc["main"] = "cp_stat"
           /\ pc'["main"] # "cp_stat"
           /\ req["main"].data.path \in disk)
          => /\ ret'["main"].kind = "Conflict"
             /\ pc'["main"] = "idle"
             /\ projects' = projects
       /\ (/\ pc["main"] = "cp_insert"
           /\ pc'["main"] = "idle"
           /\ db # None
           /\ \E r \in projects : r.path = req["main"].data.path)
          => /\ ret'["main"].kind = "Conflict"
             /\ projects' = projects]_vars

\* C11: createProject is all-or-nothing with respect to the store.  A step of
\* directory creation, repository init or metadata writing that fails returns
\* a FileSystem or Git error and leaves the project rows as they are; the
\* steps follow one another only on success (the directory is on disk before
\* git runs, the metadata file is written before the lock is taken), and a
\* row is added only by the insert step, with the directory and the file in
\* place.
C11_AllOrNothing ==
    [][LET p == "main"
           path == req[p].data.path IN
       /\ (pc[p] \in {"cp_mkdir", "cp_git", "cp_write"} /\ pc'[p] = "idle")
            => /\ ret'[p].kind \in {"FileSystem", "Git"}
               /\ projects' = projects
       /\ (pc[p] # pc'[p] /\ pc'[p] = "cp_git") => (pc[p] = "cp_mkdir" /\ path \in disk')
       /\ (pc[p] # pc'[p] /\ pc'[p] = "cp_write") => pc[p] = "cp_git"
       /\ (pc[p] # pc'[p] /\ pc'[p] = "cp_lock")
            => (pc[p] = "cp_write" /\ meta'[path] = Some(req[p].data.name))
       /\ (pc[p] # pc'[p] /\ pc'[p] = "cp_insert") => pc[p] = "cp_lock"
       /\ (pc[p] # "idle" /\ projects' # projects)
            => /\ pc[p] = "cp_insert"
               /\ path \in disk
               /\ meta[path] = Some(req[p].data.name)
               /\ ret'[p].kind = "Ok"]_vars

\* createProject has failed at git init, after it made the directory, with
\* the database open: no row holds the path.
C11_Witness ==
    /\ req["main"].op = "create_project"
    /\ pc["main"] = "idle"
    /\ ret["main"].kind = "Git"
    /\ req["main"].data.path \in disk
    /\ db # None
    /\ \A r \in projects : r.path # req["main"].data.path

\* C12: under every interleaving of createProject, updateProject and
\* deleteProject no two project rows have the same path, and the path of a
\* row never changes (no row is removed, so none comes back under its id with
\* another path).
C12_PathUniqueImmutable ==
    [][/\ \A r1, r2 \in projects' : r1.path = r2.path => r1 = r2
       /\ \A r1 \in projects : \A r2 \in projects' : r2.id = r1.id => r2.path = r1.path
       /\ Ids(projects) \subseteq Ids(projects')]_vars

\* Two createProject calls went after the same path at once: one holds the
\* row, which an update or a delete has since archived, the other was turned
\* down at the insert.
C12_Witness ==
    /\ \E r \in projects : r.path = "/r1" /\ r.status = "archived"
    /\ \E p \in Procs :
         /\ req[p].op = "create_project"
         /\ req[p].data.path = "/r1"
         /\ pc[p] = "idle"
         /\ ret[p].kind = "Database"

\* C13: updateProject(id, dto) on an existing project overwrites exactly the
\* fields of name, description, status and tags that dto supplies (tags as a
\* whole, an empty string as an empty string and not as null), sets
\* last_modified_at to now also when dto is empty, leaves id, path,
\* created_at and every field not supplied as they were, leaves every other
\* row as it was, and returns the project as it now reads.
C13_UpdateMerges ==
    [][LET p == "main"
           id == req[p].id
           data == req[p].data IN
       (pc[p] = "up_exec" /\ pc'[p] = "idle" /\ db # None /\ id \in Ids(projects)) =>
          /\ id \in Ids(projects')
          /\ LET old == row_to_project(Row(projects, id))
                 new == row_to_project(Row(projects', id)) IN
             /\ ret'[p] = Ok(new)
             /\ new.last_modified_at = now
             /\ new.name = (IF data.name = None THEN old.name ELSE data.name[1])
             /\ new.description =
                  (IF data.description = None THEN old.description ELSE data.description)
             /\ new.status = (IF data.status = None THEN old.status ELSE data.status[1])
             /\ new.tags = (IF data.tags = None THEN old.tags ELSE data.tags)
             /\ new.id = old.id
             /\ new.path = old.path
             /\ new.created_at = old.created_at
          /\ {r \in projects' : r.id # id} = {r \in projects : r.id # id}]_vars

\* updateProject with an empty DTO has succeeded, later than the row was
\* made, beside another row.
C13_Witness ==
    /\ req["main"].op = "update_project"
    /\ pc["main"] = "idle"
    /\ req["main"].data = UpdateProjectDto(None, None, None, None)
    /\ ret["main"].kind = "Ok"
    /\ ret["main"].val.last_modified_at > ret["main"].val.created_at
    /\ Cardinality(projects) >= 2

\* C14: getProject(id) and updateProject(id, dto) fail with NotFound, which
\* carries the kind Project and the id, when no project row has that id, and
\* then no project row is created or modified.
C14_MissingProjectNotFound ==
    [][LET p == "main" IN
       (/\ pc[p] \in {"gp_exec", "up_exec"}
        /\ pc'[p] = "idle"
        /\ db # None
        /\ req[p].id \notin Ids(projects))
       => /\ ret'[p] = NotFound("Project", req[p].id)
          /\ projects' = projects]_vars

\* updateProject with a status was answered NotFound while the table holds
\* a row under another id.
C14_Witness ==
    /\ req["main"].op = "update_project"
    /\ pc["main"] = "idle"
    /\ req["main"].data.status # None
    /\ ret["main"].kind = "NotFound"
    /\ projects # {}
    /\ req["main"].id \notin Ids(projects)

\* C15: deleteProject(id) on an existing project is a soft delete: the row
\* stays, with status archived and last_modified_at set to now and its other
\* fields as they were, and every task and note row is still there; so no
\* step takes a project row away.
C15_SoftDelete ==
    [][LET p == "main" IN
       /\ (/\ pc[p] = "dp_exec"
           /\ pc'[p] = "idle"
           /\ db # None
           /\ req[p].id \in Ids(projects))
          => /\ ret'[p].kind = "Ok"
             /\ projects' = {IF r.id # req[p].id THEN r
                             ELSE [r EXCEPT !.status = "archived",
                                            !.last_modified_at = now] : r \in projects}
             /\ tasks' = tasks
             /\ notes' = notes
       /\ Ids(projects) \subseteq Ids(projects')
       /\ Cardinality(projects') >= Cardinality(projects)]_vars

\* deleteProject has succeeded on a project that owns a task and a note: the
\* row is archived, later than it was made.
C15_Witness ==
    /\ req["main"].op = "delete_project"
    /\ pc["main"] = "idle"
    /\ ret["main"].kind = "Ok"
    /\ \E r \in projects :
         /\ r.id = req["main"].id
         /\ r.status = "archived"
         /\ r.last_modified_at > r.created_at
         /\ \E t \in tasks : t.project_id = r.id
         /\ \E n \in notes : n.project_id = r.id

\* C16: every public operation holds the store lock for its full duration, so
\* no step of another operation comes between an operation's check and its
\* write: while a createProject is between its path-exists check and its row
\* insert, the disk, the metadata files and the project rows change by its
\* own steps only.
C16_CheckToInsertAtomic ==
    [][\A p \in Procs :
        (/\ pc[p] \in {"cp_mkdir", "cp_git", "cp_write", "cp_lock", "cp_insert"}
         /\ pc'[p] = pc[p])
        => UNCHANGED <<disk, meta, projects>>]_vars

\* The steps a caller runs holding the guard.
Holding == {"cp_insert", "lp_exec", "gp_exec", "up_exec", "dp_exec"}

\* C17: no project operation leaves the lock held: a caller holds it only
\* inside its critical section, and its next step returns, on success and on
\* every error, with the lock released, so that a later operation can take
\* it; an operation that finds the lock poisoned returns a System error at
\* once, without touching the store.
C17_LockReleased ==
    [][\A p \in Procs :
        /\ lock' = p => pc'[p] \in Holding
        /\ (pc[p] \in Holding /\ pc'[p] # pc[p])
             => (lock = p /\ lock' = "free" /\ pc'[p] = "idle" /\ ret'[p].kind # "pending")
        /\ (/\ lock = "poisoned"
            /\ \/ pc[p] = "cp_lock" /\ pc'[p] # pc[p]
               \/ \E op \in {"list_projects", "get_project", "update_project",
                               "delete_project"} : Called(p, op))
             => /\ ret'[p] = System("Failed to lock database")
                /\ pc'[p] = "idle"
                /\ UNCHANGED <<db, projects, tasks, notes>>]_vars

\* One createProject was turned down by the store at its insert and the
\* lock came free again; later the mutex was poisoned and updateProject was
\* answered with a System error.
C17_Witness ==
    /\ lock = "poisoned"
    /\ req["main"].op = "update_project"
    /\ pc["main"] = "idle"
    /\ ret["main"] = System("Failed to lock database")
    /\ req["worker"].op = "create_project"
    /\ pc["worker"] = "idle"
    /\ ret["worker"].kind = "Database"

\* C18: in every state that createProject, updateProject and deleteProject
\* reach, the status of every project row is active or archived: an
\* updateProject whose dto.status is another string does not store it.
C18_ProjectStatusDomain ==
    [][\A r \in projects' : r.status \in {"active", "archived"}]_vars

\* C19: getTaskHierarchy(id) returns a finite projection for every store
\* content: also when the parent_id pointers of the store contain a cycle it
\* succeeds, and no task appears twice in what it returns.
C19_HierarchyOnCycle ==
    [][(/\ Called("main", "get_task_hierarchy")
        /\ req'["main"].id \in Ids(tasks)
        /\ \E r \in tasks : r.id \in Ancestors(tasks, r.id))
       => /\ ret'["main"].kind = "Ok"
          /\ LET ids == TreeIds(ret'["main"].val) IN
             \A i, j \in DOMAIN ids : ids[i] = ids[j] => i = j]_vars

\* C20: completed_at is derived from status: every task createTask or
\* updateTask returns or persists has completed_at set if and only if its
\* status is done, a task created with dto.status = done included.
C20_CompletedAtIffDone ==
    [][(\E op \in {"create_task", "update_task"} : Called("main", op)) =>
        /\ ret'["main"].kind = "Ok" =>
             (ret'["main"].val.completed_at # None <=> ret'["main"].val.status = "done")
        /\ \A r \in tasks' \ tasks : r.completed_at # None <=> r.status = "done"]_vars

\* C21: every task createTask returns, and every task after updateTask or
\* reorderTask, is within the domains of the data model: status is todo,
\* in_progress or done, priority is low, medium or high, order is not
\* negative; a DTO with another status or priority or a negative order does
\* not yield a task.
C21_TaskDomain ==
    [][((\E op \in {"create_task", "update_task", "reorder_task"} : Called("main", op))
        /\ ret'["main"].kind = "Ok")
       => /\ ret'["main"].val.status \in {"todo", "in_progress", "done"}
          /\ ret'["main"].val.priority \in {"low", "medium", "high"}
          /\ ret'["main"].val.order >= 0]_vars

\* C22: under any interleaving of two createProject calls at once with the
\* same path and different names, at most one returns a project, the other
\* returns Conflict, and the research.json left at the path carries the title
\* of the project whose row was persisted.  Stated of the state in which both
\* calls have returned and the mutex is sound: the call that lost to the
\* other, at the check of the path or at the insert, is answered Conflict.
C22_OneWinnerTakesPath ==
    \A p, q \in Procs :
        (/\ p # q
         /\ lock # "poisoned"
         /\ pc[p] = "idle" /\ pc[q] = "idle"
         /\ req[p].op = "create_project" /\ req[q].op = "create_project"
         /\ req[p].data.path = req[q].data.path
         /\ req[p].data.name # req[q].data.name
         /\ ret[p].kind = "Ok")
        => /\ ret[q].kind # "Ok"
           /\ ret[q].kind \notin {"FileSystem", "Git", "System"} => ret[q].kind = "Conflict"
           /\ meta[req[p].data.path] = Some(ret[p].val.name)

\* C23: a createProject call that fails after the path-exists check (at git
\* init, at the metadata write, on a database not initialized, at the row
\* insert) leaves no residue: it has added no project row and no directory is
\* left at dto.path, so that a retry with the same DTO is not turned down with
\* Conflict for the failed attempt.
C23_NoResidue ==
    [][LET p == "main" IN
       (/\ pc[p] \in {"cp_git", "cp_write", "cp_lock", "cp_insert"}
        /\ pc'[p] = "idle"
        /\ ret'[p].kind # "Ok")
       => /\ projects' = projects
          /\ req[p].data.path \notin disk']_vars

\* C24: deleteProject(id) with an id that no project row has returns success,
\* not NotFound, and leaves every project row as it was; deleteProject of a
\* project already archived returns success and keeps it archived, only its
\* last_modified_at set anew.
C24_DeleteIsIdempotent ==
    [][LET p == "main"
           id == req[p].id IN
       (pc[p] = "dp_exec" /\ pc'[p] = "idle" /\ db # None) =>
          /\ id \notin Ids(projects)
               => (ret'[p] = Ok(<<>>) /\ projects' = projects)
          /\ (id \in Ids(projects) /\ Row(projects, id).status = "archived")
               => /\ ret'[p] = Ok(<<>>)
                  /\ projects' = (projects \ {Row(projects, id)})
                        \cup {[Row(projects, id) EXCEPT !.last_modified_at = now]}
                  /\ Row(projects', id).status = "archived"]_vars

\* deleteProject was answered with success for an id that no row has, while
\* the table holds a row under another id.
C24_Witness ==
    /\ req["main"].op = "delete_project"
    /\ pc["main"] = "idle"
    /\ ret["main"] = Ok(<<>>)
    /\ req["main"].id \notin Ids(projects)
    /\ projects # {}

====
